---- MODULE Spec2Model ----
(***************************************************************************)
(* A model of the risk pipeline (src/src/risk_pipeline): in pipeline.py    *)
(* the source dispatch, temporal selection, imputation with basis tags,    *)
(* normalization to 0..100, the skip-missing aggregation and the outputs   *)
(* of run_pipeline; in the connectors the retry loop of acled.py and the   *)
(* source fallback of ndgain.py.                                           *)
(*                                                                         *)
(* Floats are modelled as exact rationals <<n, d>> in lowest terms with    *)
(* d > 0, plus the three IEEE specials NaN = <<0,0>>, +inf = <<1,0>> and   *)
(* -inf = <<-1,0>>.  pandas' "missing" is NaN.  Rounding and the sign of   *)
(* zero are not modelled.                                                  *)
(***************************************************************************)
EXTENDS Integers, Sequences, FiniteSets, TLC

VARIABLES pc, countries, cfg, ii, spec_norm, lookback, df, used, basis0,
          values, basis, level, norm_full,
          raw_values, norm_values, basis_values, indicator_meta, df_wide,
          years_used, df_long, tasks,
          connector,
          bo_pc, attempt, sleeps, statuses,
          nd_pc, nd_env, nd_k, nd_df, nd_from

\* The locals of run_pipeline and of the functions it calls.
pipeline_vars == <<pc, countries, cfg, ii, spec_norm, lookback, df, used, basis0,
                   values, basis, level, norm_full,
                   raw_values, norm_values, basis_values, indicator_meta, df_wide,
                   years_used, df_long, tasks>>

\* The outcome of the connector behind source_fetch.
fetch_vars == <<connector>>

\* The locals of _request_with_backoff and what it did so far.
backoff_vars == <<bo_pc, attempt, sleeps, statuses>>

\* The locals of fetch_nd_gain and the state of its sources.
ndgain_vars == <<nd_pc, nd_env, nd_k, nd_df, nd_from>>

adapter_vars == <<fetch_vars, backoff_vars, ndgain_vars>>

vars == <<pipeline_vars, adapter_vars>>

(***************************************************************************)
(* Bounds of the model.                                                    *)
(***************************************************************************)
\* Raw values are the integers 0..MaxVal (and missing).
MaxVal == 2
\* A raw series of the selector has at most MaxRows rows.
MaxRows == 3
\* lookback_years is drawn from 0..MaxLookback.
MaxLookback == 1

(***************************************************************************)
(* Float arithmetic                                                        *)
(***************************************************************************)
Abs(x) == IF x < 0 THEN -x ELSE x

Sign(x) == IF x < 0 THEN -1 ELSE IF x > 0 THEN 1 ELSE 0

RECURSIVE GCD(_, _)
GCD(a, b) == IF b = 0 THEN a ELSE GCD(b, a % b)

\* The float n/d: lowest terms, positive denominator; x/0 is an IEEE special.
Q(n, d) ==
    IF d = 0 THEN <<Sign(n), 0>>
    ELSE LET g == GCD(Abs(n), Abs(d))
             s == Sign(d)
         IN  <<s * (n \div g), Abs(d) \div g>>

NaN == <<0, 0>>
PosInf == <<1, 0>>
NegInf == <<-1, 0>>
R(k) == <<k, 1>>

isna(x) == x = NaN
notna(x) == x # NaN
IsInf(x) == x[2] = 0 /\ x[1] # 0

RNeg(a) == <<-a[1], a[2]>>

RAdd(a, b) ==
    IF isna(a) \/ isna(b) THEN NaN
    ELSE IF IsInf(a) THEN (IF IsInf(b) /\ b # a THEN NaN ELSE a)
    ELSE IF IsInf(b) THEN b
    ELSE Q(a[1] * b[2] + b[1] * a[2], a[2] * b[2])

RSub(a, b) == RAdd(a, RNeg(b))

RMul(a, b) ==
    IF isna(a) \/ isna(b) THEN NaN
    ELSE IF IsInf(a) \/ IsInf(b) THEN <<Sign(a[1]) * Sign(b[1]), 0>>
    ELSE Q(a[1] * b[1], a[2] * b[2])

\* a / b with IEEE results for a zero divisor: x/0 = +-inf, 0/0 = NaN.
RDiv(a, b) ==
    IF isna(a) \/ isna(b) THEN NaN
    ELSE IF IsInf(b) THEN (IF IsInf(a) THEN NaN ELSE R(0))
    ELSE IF IsInf(a) THEN (IF b[1] < 0 THEN RNeg(a) ELSE a)
    ELSE Q(a[1] * b[2], a[2] * b[1])

\* a < b; every comparison with NaN is false.
RLt(a, b) ==
    /\ notna(a) /\ notna(b)
    /\ a # b
    /\ IF IsInf(a) THEN a = NegInf
       ELSE IF IsInf(b) THEN b = PosInf
       ELSE a[1] * b[2] < b[1] * a[2]

RLe(a, b) == notna(a) /\ notna(b) /\ (a = b \/ RLt(a, b))

\* Python's hi != lo on floats: NaN differs from everything, itself included.
RNe(a, b) == isna(a) \/ isna(b) \/ a # b

\* Series.clip(lo, hi) / np.clip on one element: NaN stays NaN.
clip(x, lo, hi) ==
    IF isna(x) THEN NaN
    ELSE IF RLt(x, lo) THEN lo
    ELSE IF RLt(hi, x) THEN hi
    ELSE x

\* Series.clip(lower=lo) on one element.
clip_lower(x, lo) == IF isna(x) THEN NaN ELSE IF RLt(x, lo) THEN lo ELSE x

(***************************************************************************)
(* Series helpers.  A column (pandas Series) is a function from its index  *)
(* to floats; every reduction below skips NaN, as pandas and the numpy     *)
(* nan-functions do.                                                       *)
(***************************************************************************)
Present(col) == {c \in DOMAIN col : notna(col[c])}

\* Series.notna().sum()
count(col) == Cardinality(Present(col))

\* The k-th smallest (k = 0, 1, ...) of the non-missing values of col.
Kth(col, k) ==
    LET D == Present(col)
    IN  CHOOSE x \in {col[c] : c \in D} :
            /\ Cardinality({c \in D : RLt(col[c], x)}) <= k
            /\ k < Cardinality({c \in D : RLe(col[c], x)})

\* Series.min() / Series.max(): NaN when nothing is present.
smin(col) == IF count(col) = 0 THEN NaN ELSE Kth(col, 0)
smax(col) == IF count(col) = 0 THEN NaN ELSE Kth(col, count(col) - 1)

\* Series.median(): the middle value, or the mean of the two middle values.
median(col) ==
    LET n == count(col)
    IN  IF n = 0 THEN NaN
        ELSE IF n % 2 = 1 THEN Kth(col, n \div 2)
        ELSE RDiv(RAdd(Kth(col, n \div 2 - 1), Kth(col, n \div 2)), R(2))

\* np.nanpercentile(col, q), linear interpolation between order statistics.
nanpercentile(col, q) ==
    LET n == count(col)
        pos == q * (n - 1)
        i == pos \div 100
        f == pos % 100
    IN  IF n = 0 THEN NaN
        ELSE IF f = 0 THEN Kth(col, i)
        ELSE RAdd(Kth(col, i),
                  RMul(RSub(Kth(col, i + 1), Kth(col, i)), Q(f, 100)))

\* ln(1 + k) for k = 0..12, in thousandths.
Log1pTable == <<0, 693, 1099, 1386, 1609, 1792, 1946, 2079, 2197, 2303,
                2398, 2485, 2565>>

\* np.log1p: NaN below -1, -inf at -1, 0 at 0, increasing; between the
\* integers of the table it is interpolated linearly, on (-1, 0) it is the
\* Pade approximant 2x / (2 + x), above the table the last entry.
log1p(x) ==
    IF isna(x) THEN NaN
    ELSE IF x = PosInf THEN PosInf
    ELSE IF RLt(x, R(-1)) THEN NaN
    ELSE IF x = R(-1) THEN NegInf
    ELSE IF RLt(x, R(0)) THEN RDiv(RMul(R(2), x), RAdd(R(2), x))
    ELSE LET k == x[1] \div x[2]
             fr == Q(x[1] % x[2], x[2])
         IN  IF k + 1 >= Len(Log1pTable) THEN Q(Log1pTable[Len(Log1pTable)], 1000)
             ELSE RAdd(Q(Log1pTable[k + 1], 1000),
                       RMul(fr, Q(Log1pTable[k + 2] - Log1pTable[k + 1], 1000)))

(***************************************************************************)
(* Normalization 0..100                                                    *)
(***************************************************************************)
\* dict.get(key, default): a dict is a record, an absent key is not in its domain.
get(dict, key, default) == IF key \in DOMAIN dict THEN dict[key] ELSE default

\* {**defaults, **overrides}
merge(defaults, overrides) ==
    [k \in DOMAIN defaults \cup DOMAIN overrides |->
        IF k \in DOMAIN overrides THEN overrides[k] ELSE defaults[k]]

\* Defaults written in normalize.
P_LOW == 5
P_HIGH == 95
CAP_PERCENTILE == 95
MIN_POINTS == 4

MapCol(col, F(_)) == [c \in DOMAIN col |-> F(col[c])]

\* 100 - r, the reflection applied when higher_is_riskier is false.
Reflect(r) == RSub(R(100), r)

Clip0100(r) == clip(r, R(0), R(100))

norm_invert_0_100(v) ==
    [c \in DOMAIN v |-> Clip0100(RSub(R(100), v[c]))]

norm_wgi(v) ==
    [c \in DOMAIN v |->
        Clip0100(RMul(RDiv(RSub(Q(5, 2), v[c]), R(5)), R(100)))]

\* linear_minmax returning r without the final np.clip(r, 0, 100).
norm_linear_minmax_unclipped(v, spec) ==
    LET mn == get(spec, "min", smin(v))
        mx == get(spec, "max", smax(v))
        r(c) == RMul(RDiv(RSub(v[c], mn), RSub(mx, mn)), R(100))
    IN  [c \in DOMAIN v |->
            IF get(spec, "higher_is_riskier", TRUE) THEN r(c) ELSE RSub(R(100), r(c))]

\* mn, mx = float(spec.get("min", v.min())), float(spec.get("max", v.max()))
linear_min(v, spec) == get(spec, "min", smin(v))
linear_max(v, spec) == get(spec, "max", smax(v))

norm_linear_minmax(v, spec) ==
    LET mn == linear_min(v, spec)
        mx == linear_max(v, spec)
        r(c) == RMul(RDiv(RSub(v[c], mn), RSub(mx, mn)), R(100))
    IN  [c \in DOMAIN v |->
            Clip0100(IF get(spec, "higher_is_riskier", TRUE) THEN r(c) ELSE Reflect(r(c)))]

\* cap = float(spec.get("cap", np.nanpercentile(v.dropna(), 95) if v.notna().any() else 1.0))
log_cap_of(v, spec) ==
    get(spec, "cap", IF count(v) > 0 THEN nanpercentile(v, CAP_PERCENTILE) ELSE R(1))

norm_log_cap(v, spec) ==
    [c \in DOMAIN v |->
        Clip0100(RMul(RDiv(log1p(clip_lower(v[c], R(0))), log1p(log_cap_of(v, spec))),
                      R(100)))]

\* lo, hi: the percentiles when at least MIN_POINTS values are present,
\* else the observed extrema.
clamp_lo(v, spec) ==
    IF count(v) >= MIN_POINTS THEN nanpercentile(v, get(spec, "p_low", P_LOW))
    ELSE smin(v)

clamp_hi(v, spec) ==
    IF count(v) >= MIN_POINTS THEN nanpercentile(v, get(spec, "p_high", P_HIGH))
    ELSE smax(v)

norm_percentile_clamp(v, spec) ==
    LET lo == clamp_lo(v, spec)
        hi == clamp_hi(v, spec)
        r(c) == IF RNe(hi, lo)
                THEN RMul(RDiv(RSub(v[c], lo), RSub(hi, lo)), R(100))
                ELSE R(50)
    IN  [c \in DOMAIN v |->
            Clip0100(IF get(spec, "higher_is_riskier", TRUE) THEN r(c) ELSE Reflect(r(c)))]

\* The two pre-scaling modifiers, in the order normalize applies them.
prescale(vals, spec) ==
    LET v1 == IF get(spec, "invert_sign", FALSE) THEN MapCol(vals, RNeg) ELSE vals
        mxmn == RAdd(smax(v1), smin(v1))
    IN  IF get(spec, "invert", FALSE) THEN [c \in DOMAIN v1 |-> RSub(mxmn, v1[c])] ELSE v1

normalize(vals, spec) ==
    LET v == prescale(vals, spec)
        method == get(spec, "method", "percentile_clamp")
    IN  CASE method = "invert_0_100" -> norm_invert_0_100(v)
          [] method = "wgi" -> norm_wgi(v)
          [] method = "linear_minmax" -> norm_linear_minmax(v, spec)
          [] method = "log_cap" -> norm_log_cap(v, spec)
          [] OTHER -> norm_percentile_clamp(v, spec)

(***************************************************************************)
(* Country registry and configuration                                      *)
(***************************************************************************)
\* One row (iso3, year, value) of a table.
row(iso, y, v) == [iso3 |-> iso, year |-> y, value |-> v]

\* The registry fetch_wb_countries falls back to.
FallbackRegistry ==
    <<[iso3 |-> "AUT", region |-> "Europe & Central Asia", incomeLevel |-> "High income"],
      [iso3 |-> "USA", region |-> "North America", incomeLevel |-> "High income"],
      [iso3 |-> "BRA", region |-> "Latin America & Caribbean", incomeLevel |-> "Upper middle income"],
      [iso3 |-> "NGA", region |-> "Sub-Saharan Africa", incomeLevel |-> "Lower middle income"],
      [iso3 |-> "IND", region |-> "South Asia", incomeLevel |-> "Lower middle income"]>>

Range(s) == {s[i] : i \in DOMAIN s}

\* iso_list = countries["iso3"].tolist()
iso_list(reg) == {reg[i].iso3 : i \in DOMAIN reg}

\* meta = countries.set_index("iso3"); meta.loc[iso][field]
meta(reg, iso) == reg[CHOOSE i \in DOMAIN reg : reg[i].iso3 = iso]

(***************************************************************************)
(* Latest + lookback selection                                             *)
(***************************************************************************)
\* The basis tag of a country nothing was written for (a NaN cell).
NoBasis == "missing"

\* latest_year = df.groupby("iso3")["year"].max()
latest_year(d, iso) ==
    CHOOSE y \in {d[i].year : i \in {j \in DOMAIN d : d[j].iso3 = iso}} :
        \A i \in DOMAIN d : d[i].iso3 = iso => d[i].year <= y

\* sub[sub["year"] == yy]: the positions of iso's rows of year yy.  The sort by
\* (iso3 ascending, year descending) is stable, so among them the frame's
\* order is the order of df.
rows_of(d, iso, yy) == {i \in DOMAIN d : d[i].iso3 = iso /\ d[i].year = yy}

\* row.iloc[0]
first_row(d, iso, yy) ==
    d[CHOOSE i \in rows_of(d, iso, yy) : \A j \in rows_of(d, iso, yy) : i <= j]

\* A probe that passes over the rows whose value is missing.
probe_valued(d, iso, lb) ==
    LET hits == {k \in 0..lb :
                    \E i \in rows_of(d, iso, latest_year(d, iso) - k) : notna(d[i].value)}
    IN  IF hits = {} THEN -1
        ELSE CHOOSE k \in hits : \A m \in hits : k <= m

\* The k of the first probe year y_latest - k, k = 0..lookback, that has a row
\* (the probe tests "not row.empty", not the row's value); -1 when none has.
probe(d, iso, lb) ==
    LET hits == {k \in 0..lb : rows_of(d, iso, latest_year(d, iso) - k) # {}}
    IN  IF hits = {} THEN -1
        ELSE CHOOSE k \in hits : \A m \in hits : k <= m

\* used_basis = "raw" if k==0 else "lookback"
basis_of_probe(k) == IF k = 0 THEN "raw" ELSE "lookback"

\* The countries a row was chosen for.
chosen_isos(d, lb) ==
    {iso \in {d[i].iso3 : i \in DOMAIN d} : probe(d, iso, lb) >= 0}

\* pick_latest_with_lookback_and_basis: (used, basis_map).  used is the set of
\* the chosen rows, basis_map a function on the countries chosen.
pick_latest_with_lookback_and_basis(d, lb) ==
    IF d = <<>> THEN [used |-> {}, basis_map |-> <<>>]
    ELSE [used |-> {first_row(d, iso, latest_year(d, iso) - probe(d, iso, lb)) :
                        iso \in chosen_isos(d, lb)},
          basis_map |-> [iso \in chosen_isos(d, lb) |->
                            basis_of_probe(probe(d, iso, lb))]]

\* A filter that lets every chosen row through.
filter_none(u, reg) == u

\* used = used[used["iso3"].isin(iso_list)]
filter_registry(u, reg) == {r \in u : r.iso3 \in iso_list(reg)}

\* ser_used.reindex(iso_list): NaN for a country without a chosen row.
ser_used(u, reg) ==
    [c \in iso_list(reg) |->
        IF \E r \in u : r.iso3 = c
        THEN (CHOOSE r \in u : r.iso3 = c).value
        ELSE NaN]

\* The cell of a year column for a country without a chosen row.
NoYear == 0

\* ser_year.reindex(iso_list): the year of the chosen row.
ser_year(u, reg) ==
    [c \in iso_list(reg) |->
        IF \E r \in u : r.iso3 = c
        THEN (CHOOSE r \in u : r.iso3 = c).year
        ELSE NoYear]

(***************************************************************************)
(* Imputation with basis tags                                              *)
(***************************************************************************)
\* basis.loc[iso] = b for the countries of basis_init that are in the index.
basis_start(index, basis_init) ==
    [c \in index |-> IF c \in DOMAIN basis_init THEN basis_init[c] ELSE NoBasis]

\* df_values.join(meta[[key]], on="iso3").groupby(key)["value"].median() at
\* group g: the median of the values of the rows of df_values whose country
\* is classified g (the left join gives a row of a country outside the
\* registry no class); NaN (grp.get's default) for a group without such rows.
group_median(df_values, reg, key, g) ==
    LET members == {r \in df_values :
                        r.iso3 \in iso_list(reg) /\ meta(reg, r.iso3)[key] = g}
    IN  median([r \in members |-> r.value])

\* A global median that is 0 rather than NaN for an empty anchor set.
global_median_zero_if_empty(df_values) ==
    IF df_values = {} THEN R(0) ELSE median([r \in df_values |-> r.value])

\* df_values["value"].median() if not df_values.empty else np.nan
global_median(df_values) == median([r \in df_values |-> r.value])

\* The median one level offers to country iso.
level_median(lvl, df_values, reg, iso) ==
    CASE lvl = "region" ->
            group_median(df_values, reg, "region", meta(reg, iso).region)
      [] lvl = "income" ->
            group_median(df_values, reg, "incomeLevel", meta(reg, iso).incomeLevel)
      [] lvl = "global" -> global_median(df_values)
      [] OTHER -> NaN

\* A mask that forgets "still missing": every country is offered the level.
mask_all(vals) == DOMAIN vals

\* mask = values.isna()
mask(vals) == {c \in DOMAIN vals : isna(vals[c])}

\* A pass whose medians are taken over the current values (earlier fills
\* included) instead of the anchor rows.
fill_values_from_filled(lvl, vals, df_values, reg) ==
    LET filled == {row(c, 0, vals[c]) : c \in DOMAIN vals}
    IN  [c \in DOMAIN vals |->
            IF isna(vals[c]) /\ notna(level_median(lvl, filled, reg, c))
            THEN level_median(lvl, filled, reg, c)
            ELSE vals[c]]

\* One pass of "for level in order": the still-missing countries the level
\* has a median for receive it.
fill_values(lvl, vals, df_values, reg) ==
    [c \in DOMAIN vals |->
        IF c \in mask(vals) /\ notna(level_median(lvl, df_values, reg, c))
        THEN level_median(lvl, df_values, reg, c)
        ELSE vals[c]]

\* The same pass on the basis column: the countries filled are tagged.
fill_basis(lvl, vals, bas, df_values, reg) ==
    [c \in DOMAIN vals |->
        IF c \in mask(vals) /\ notna(level_median(lvl, df_values, reg, c))
        THEN lvl
        ELSE bas[c]]

(***************************************************************************)
(* Aggregation (skip-missing means)                                        *)
(***************************************************************************)
RECURSIVE rsum(_, _)
\* The sum of col over the index subset D.
rsum(col, D) ==
    IF D = {} THEN R(0)
    ELSE LET c == CHOOSE x \in D : TRUE
         IN  RAdd(col[c], rsum(col, D \ {c}))

\* A mean that counts a missing member as zero.
mean_zero_fill(col) ==
    IF DOMAIN col = {} THEN NaN
    ELSE RDiv(rsum(col, Present(col)), R(Cardinality(DOMAIN col)))

\* DataFrame.mean(axis=1, skipna=True) on one row: NaN when all are missing.
mean_skipna(col) ==
    IF Present(col) = {} THEN NaN
    ELSE RDiv(rsum(col, Present(col)), R(count(col)))

ind_ids(c) == {c.indicators[k].id : k \in DOMAIN c.indicators}

\* gid = f"{ind['pillar']}::{ind['group']}"
gid_of(ind) == <<ind.pillar, ind.group>>

\* group_map / pillar_map: the indicator ids filed under a key.
group_map(c) ==
    [g \in {gid_of(c.indicators[k]) : k \in DOMAIN c.indicators} |->
        {c.indicators[k].id : k \in {j \in DOMAIN c.indicators : gid_of(c.indicators[j]) = g}}]

pillar_map(c) ==
    [p \in {c.indicators[k].pillar : k \in DOMAIN c.indicators} |->
        {c.indicators[k].id : k \in {j \in DOMAIN c.indicators : c.indicators[j].pillar = p}}]

\* df_wide[cols].mean(axis=1, skipna=True) over the norm columns of ids.
score_over(ids, norms, isos) ==
    [iso \in isos |-> mean_skipna([i \in ids |-> norms[i][iso]])]

group_scores(c, norms, isos) ==
    [g \in DOMAIN group_map(c) |-> score_over(group_map(c)[g], norms, isos)]

\* A pillar score taken as the mean of the pillar's group scores.
pillar_scores_from_groups(c, norms, isos) ==
    [p \in DOMAIN pillar_map(c) |->
        [iso \in isos |->
            mean_skipna([g \in {h \in DOMAIN group_map(c) : h[1] = p} |->
                            group_scores(c, norms, isos)[g][iso]])]]

\* df_wide[f"pillar__{pid}"]: the mean over the norm columns of the pillar's
\* indicators (pillar_map), not over its group columns.
pillar_scores(c, norms, isos) ==
    [p \in DOMAIN pillar_map(c) |-> score_over(pillar_map(c)[p], norms, isos)]

\* risk_total: the mean over the columns pillar__p of the declared pillars.
risk_total(c, pscores, isos) ==
    [iso \in isos |-> mean_skipna([p \in Range(c.pillars) |-> pscores[p][iso]])]

\* Selecting the column of a declared pillar no indicator names is a KeyError.
total_raises(c) == \E p \in Range(c.pillars) : p \notin DOMAIN pillar_map(c)

(***************************************************************************)
(* run_pipeline: the per-indicator loop and the aggregation, as steps.     *)
(***************************************************************************)
Nothing == <<>>

\* The indicator of the current iteration of "for ind in cfg['indicators']".
ind == cfg.indicators[ii]

\* df["value"] = df["value"] * float(ind["transform"]["scale"])
apply_transform(indicator, table) ==
    IF "transform" \in DOMAIN indicator /\ "scale" \in DOMAIN indicator.transform
       /\ table # <<>>
    THEN [k \in DOMAIN table |->
            [table[k] EXCEPT !.value = RMul(@, indicator.transform.scale)]]
    ELSE table

\* A dict whose entries all share the column object written last.
put_shared(dict, key, col) == [k \in DOMAIN dict \cup {key} |-> col]

\* One column added to a dict of columns keyed by indicator id.
put(dict, key, col) ==
    [k \in DOMAIN dict \cup {key} |-> IF k = key THEN col ELSE dict[k]]

\* The tables a source may hand to the pipeline for a registry: source_fetch
\* returns whatever rows the provider has, or an empty table.
SourceTables ==
    { <<>>,
      <<row("AUT", 2020, R(1)), row("USA", 2020, R(2)), row("BRA", 2020, R(1)),
        row("NGA", 2020, R(2))>>,
      <<row("AUT", 2020, R(2)), row("BRA", 2019, R(1))>>,
      <<row("XKX", 2020, R(2))>>,
      <<row("XKX", 2020, R(2)), row("AUT", 2020, R(1))>>,
      <<row("USA", 2020, NaN), row("USA", 2019, R(1)), row("NGA", 2020, R(1))>> }

\* df = source_fetch(ind), the lookback and the merged normalization spec.
Fetch ==
    /\ pc = "fetch"
    /\ \E t \in SourceTables : df' = apply_transform(ind, t)
    /\ lookback' = get(ind, "lookback_years", cfg.defaults.lookback_years)
    /\ spec_norm' = merge(cfg.defaults.normalization, get(ind, "normalization", Nothing))
    /\ pc' = "select"
    /\ UNCHANGED <<countries, cfg, ii, used, basis0, values, basis, level,
                   norm_full, raw_values, norm_values, basis_values, indicator_meta, df_wide,
                   years_used, df_long, adapter_vars, tasks>>

\* used, basis0 = pick_latest_with_lookback_and_basis(df, lookback)
Select ==
    /\ pc = "select"
    /\ used' = pick_latest_with_lookback_and_basis(df, lookback).used
    /\ basis0' = pick_latest_with_lookback_and_basis(df, lookback).basis_map
    /\ pc' = "filter"
    /\ UNCHANGED <<countries, cfg, ii, spec_norm, lookback, df, values, basis,
                   level, norm_full, raw_values, norm_values, basis_values, indicator_meta, df_wide,
                   years_used, df_long, adapter_vars, tasks>>

\* used = used[used["iso3"].isin(iso_list)]
Filter ==
    /\ pc = "filter"
    /\ used' = filter_registry(used, countries)
    /\ pc' = "impute"
    /\ UNCHANGED <<countries, cfg, ii, spec_norm, lookback, df, basis0, values,
                   basis, level, norm_full, raw_values, norm_values, basis_values, indicator_meta,
                   df_wide,
                   years_used, df_long, adapter_vars, tasks>>

\* impute_with_basis, entry: values = series.copy(), basis from basis_init.
ImputeStart ==
    /\ pc = "impute"
    /\ values' = ser_used(used, countries)
    /\ basis' = basis_start(iso_list(countries), basis0)
    /\ level' = 1
    /\ pc' = "levels"
    /\ UNCHANGED <<countries, cfg, ii, spec_norm, lookback, df, used, basis0,
                   norm_full, raw_values, norm_values, basis_values, indicator_meta, df_wide,
                   years_used, df_long, adapter_vars, tasks>>

impute_order == cfg.defaults.imputation.order

\* The loop of impute_with_basis goes on: a level is left and a value is missing.
more_levels == level <= Len(impute_order) /\ mask(values) # {}

\* impute_with_basis, one iteration of "for level in order".
ImputeLevel ==
    /\ pc = "levels"
    /\ more_levels
    /\ values' = fill_values(impute_order[level], values, used, countries)
    /\ basis' = fill_basis(impute_order[level], values, basis, used, countries)
    /\ level' = level + 1
    /\ UNCHANGED <<pc, countries, cfg, ii, spec_norm, lookback, df, used, basis0,
                   norm_full, raw_values, norm_values, basis_values, indicator_meta, df_wide,
                   years_used, df_long, adapter_vars, tasks>>

\* impute_with_basis returns: the order is exhausted or nothing is missing.
ImputeReturn ==
    /\ pc = "levels"
    /\ ~more_levels
    /\ pc' = "normalize"
    /\ UNCHANGED <<countries, cfg, ii, spec_norm, lookback, df, used, basis0,
                   values, basis, level, norm_full, raw_values, norm_values,
                   basis_values, indicator_meta, df_wide,
                   years_used, df_long, adapter_vars, tasks>>

\* norm_full = normalize(values_full, spec_norm)
Normalize ==
    /\ pc = "normalize"
    /\ norm_full' = normalize(values, spec_norm)
    /\ pc' = "store"
    /\ UNCHANGED <<countries, cfg, ii, spec_norm, lookback, df, used, basis0,
                   values, basis, level, raw_values, norm_values, basis_values, indicator_meta,
                   df_wide,
                   years_used, df_long, adapter_vars, tasks>>

\* float(values_full.notna().mean()) if len(values_full)>0 else 0.0
coverage_share(vals) ==
    IF DOMAIN vals = {} THEN R(0) ELSE Q(count(vals), Cardinality(DOMAIN vals))

\* basis_full.value_counts(dropna=False), a NaN key written as "missing".
basis_counts(bas) ==
    [b \in {bas[c] : c \in DOMAIN bas} |-> Cardinality({c \in DOMAIN bas : bas[c] = b})]

\* year_min / year_max of the chosen rows, None (NoYear) without any.
year_min(u) ==
    IF u = {} THEN NoYear
    ELSE CHOOSE y \in {r.year : r \in u} : \A r \in u : y <= r.year

year_max(u) ==
    IF u = {} THEN NoYear
    ELSE CHOOSE y \in {r.year : r \in u} : \A r \in u : y >= r.year

\* indicator_meta[iid]
meta_of(indicator, vals, bas, u, source_empty) ==
    [pillar |-> indicator.pillar,
     group |-> indicator.group,
     coverage_share |-> coverage_share(vals),
     basis_counts |-> basis_counts(bas),
     year_min |-> year_min(u),
     year_max |-> year_max(u),
     source_empty |-> source_empty]

\* raw_values[iid] = values_full, ... and the next iteration, or the aggregation.
Store ==
    /\ pc = "store"
    /\ raw_values' = put(raw_values, ind.id, values)
    /\ norm_values' = put(norm_values, ind.id, norm_full)
    /\ basis_values' = put(basis_values, ind.id, basis)
    /\ years_used' = put(years_used, ind.id, ser_year(used, countries))
    /\ indicator_meta' = put(indicator_meta, ind.id,
                             meta_of(ind, values, basis, used, df = <<>>))
    /\ ii' = ii + 1
    /\ pc' = IF ii < Len(cfg.indicators) THEN "fetch" ELSE "aggregate"
    /\ UNCHANGED <<countries, cfg, spec_norm, lookback, df, used, basis0, values,
                   basis, level, norm_full, df_wide, df_long, adapter_vars, tasks>>

\* The group, pillar and total columns of df_wide.
Aggregate ==
    /\ pc = "aggregate"
    /\ IF total_raises(cfg)
       THEN /\ pc' = "raised"
            /\ df_wide' = Nothing
       ELSE /\ pc' = "done"
            /\ df_wide' =
                 [group |-> group_scores(cfg, norm_values, iso_list(countries)),
                  pillar |-> pillar_scores(cfg, norm_values, iso_list(countries)),
                  total |-> risk_total(cfg,
                                pillar_scores(cfg, norm_values, iso_list(countries)),
                                iso_list(countries))]
    /\ UNCHANGED <<countries, cfg, ii, spec_norm, lookback, df, used, basis0,
                   values, basis, level, norm_full, raw_values, norm_values,
                   basis_values, indicator_meta, years_used, df_long, adapter_vars, tasks>>

\* recs: the long format, one record per country and indicator, group,
\* pillar and total.
long_records(isos) ==
    {[iso3 |-> iso, kind |-> "indicator", id |-> <<i>>,
      raw |-> raw_values[i][iso], norm |-> norm_values[i][iso],
      basis |-> basis_values[i][iso], year |-> years_used[i][iso]] :
        iso \in isos, i \in DOMAIN raw_values}
    \cup {[iso3 |-> iso, kind |-> "group", id |-> g, norm |-> df_wide.group[g][iso]] :
            iso \in isos, g \in DOMAIN df_wide.group}
    \cup {[iso3 |-> iso, kind |-> "pillar", id |-> <<p>>, norm |-> df_wide.pillar[p][iso]] :
            iso \in isos, p \in DOMAIN df_wide.pillar}
    \cup {[iso3 |-> iso, kind |-> "total", id |-> <<"risk_total">>,
           norm |-> df_wide.total[iso]] : iso \in isos}

\* The outputs: risk_long.csv (with risk_wide.csv, coverage.csv, meta.json).
Output ==
    /\ pc = "done"
    /\ df_long' = long_records(iso_list(countries))
    /\ pc' = "written"
    /\ UNCHANGED <<countries, cfg, ii, spec_norm, lookback, df, used, basis0,
                   values, basis, level, norm_full, raw_values, norm_values,
                   basis_values, indicator_meta, df_wide, years_used,
                   adapter_vars, tasks>>

(***************************************************************************)
(* The per-indicator stage as a function of its inputs, and the loop over  *)
(* the catalog as a fold.                                                  *)
(***************************************************************************)
RECURSIVE impute_from(_, _, _, _, _, _)
\* "for level in order" from the level at position lvl on.
impute_from(lvl, vals, bas, df_values, reg, order) ==
    IF lvl > Len(order) \/ mask(vals) = {} THEN [values |-> vals, basis |-> bas]
    ELSE impute_from(lvl + 1,
                     fill_values(order[lvl], vals, df_values, reg),
                     fill_basis(order[lvl], vals, bas, df_values, reg),
                     df_values, reg, order)

\* impute_with_basis(series, df_values, countries, order, basis_init)
impute_with_basis(series, df_values, reg, order, basis_init) ==
    impute_from(1, series, basis_start(DOMAIN series, basis_init), df_values, reg, order)

\* The body of "for ind in cfg['indicators']" from the selection on: what is
\* stored for an indicator whose (transformed) table is table.
columns_of(table, lb, spec, order, reg) ==
    LET picked == pick_latest_with_lookback_and_basis(table, lb)
        u == filter_registry(picked.used, reg)
        filled == impute_with_basis(ser_used(u, reg), u, reg, order, picked.basis_map)
    IN  [raw |-> filled.values,
         norm |-> normalize(filled.values, spec),
         basis |-> filled.basis,
         year |-> ser_year(u, reg)]

\* The same from the table source_fetch returned.
per_indicator(indicator, c, reg, fetched) ==
    columns_of(apply_transform(indicator, fetched),
               get(indicator, "lookback_years", c.defaults.lookback_years),
               merge(c.defaults.normalization, get(indicator, "normalization", Nothing)),
               c.defaults.imputation.order, reg)

\* The position of the indicator whose columns are under id when the loop
\* over the catalog has ended: the last one of that id.
last_of(c, id) ==
    CHOOSE k \in DOMAIN c.indicators :
        /\ c.indicators[k].id = id
        /\ \A j \in DOMAIN c.indicators : j > k => c.indicators[j].id # id

\* What the loop over the catalog, in catalog order, has stored under each
\* indicator id when source_fetch returns tables[k] for indicator k.
sequential_run(c, reg, tables) ==
    [id \in ind_ids(c) |->
        per_indicator(c.indicators[last_of(c, id)], c, reg, tables[last_of(c, id)])]

\* The group, pillar and total columns for the norm columns norms.
aggregate_of(c, norms, isos) ==
    [group |-> group_scores(c, norms, isos),
     pillar |-> pillar_scores(c, norms, isos),
     total |-> risk_total(c, pillar_scores(c, norms, isos), isos)]

(***************************************************************************)
(* The per-indicator stages run as tasks in any order and interleaving,    *)
(* with the aggregation behind a barrier.                                  *)
(***************************************************************************)
\* A task before its first step.
NewTask == [pc |-> "fetch", fetched |-> <<>>, df |-> <<>>, picked |-> Nothing,
            used |-> {}, filled |-> Nothing, norm |-> Nothing, rank |-> 0]

\* The number of tasks that have stored their columns.
finished == Cardinality({k \in DOMAIN tasks : tasks[k].pc = "done"})

\* The next step of the task of indicator k on its own locals, when
\* source_fetch returns table t: fetch and transform, select and filter,
\* impute, normalize.
task_next(k, t) ==
    LET me == tasks[k]
        indicator == cfg.indicators[k]
    IN  CASE me.pc = "fetch" ->
               [me EXCEPT !.pc = "select", !.fetched = t,
                          !.df = apply_transform(indicator, t)]
          [] me.pc = "select" ->
               [me EXCEPT !.pc = "impute",
                    !.picked = pick_latest_with_lookback_and_basis(me.df,
                        get(indicator, "lookback_years", cfg.defaults.lookback_years)),
                    !.used = filter_registry(
                        pick_latest_with_lookback_and_basis(me.df,
                            get(indicator, "lookback_years",
                                cfg.defaults.lookback_years)).used,
                        countries)]
          [] me.pc = "impute" ->
               [me EXCEPT !.pc = "normalize",
                    !.filled = impute_with_basis(ser_used(me.used, countries), me.used,
                                                 countries, impute_order,
                                                 me.picked.basis_map)]
          [] me.pc = "normalize" ->
               [me EXCEPT !.pc = "store",
                    !.norm = normalize(me.filled.values,
                                 merge(cfg.defaults.normalization,
                                       get(indicator, "normalization", Nothing)))]

\* One step of one task; it reads cfg and countries and writes its locals.
TaskStep ==
    /\ pc = "tasks"
    /\ \E k \in DOMAIN tasks :
          /\ tasks[k].pc \in {"fetch", "select", "impute", "normalize"}
          /\ \E t \in IF tasks[k].pc = "fetch" THEN SourceTables ELSE {<<>>} :
                tasks' = [tasks EXCEPT ![k] = task_next(k, t)]
    /\ UNCHANGED <<pc, countries, cfg, ii, spec_norm, lookback, df, used, basis0,
                   values, basis, level, norm_full, raw_values, norm_values,
                   basis_values, indicator_meta, df_wide, years_used, df_long,
                   adapter_vars>>

\* A task stores its columns under its indicator id; the last one to do so
\* opens the aggregation.
TaskStore ==
    /\ pc = "tasks"
    /\ \E k \in DOMAIN tasks :
          /\ tasks[k].pc = "store"
          /\ raw_values' = put(raw_values, cfg.indicators[k].id, tasks[k].filled.values)
          /\ norm_values' = put(norm_values, cfg.indicators[k].id, tasks[k].norm)
          /\ basis_values' = put(basis_values, cfg.indicators[k].id, tasks[k].filled.basis)
          /\ years_used' = put(years_used, cfg.indicators[k].id,
                               ser_year(tasks[k].used, countries))
          /\ indicator_meta' = put(indicator_meta, cfg.indicators[k].id,
                                   meta_of(cfg.indicators[k], tasks[k].filled.values,
                                           tasks[k].filled.basis, tasks[k].used,
                                           tasks[k].fetched = <<>>))
          /\ tasks' = [tasks EXCEPT ![k].pc = "done", ![k].rank = finished + 1]
    /\ pc' = IF finished + 1 = Len(cfg.indicators) THEN "aggregate" ELSE "tasks"
    /\ UNCHANGED <<countries, cfg, ii, spec_norm, lookback, df, used, basis0,
                   values, basis, level, norm_full, df_wide, df_long, adapter_vars>>

(***************************************************************************)
(* source_fetch: the dispatch on the source type                           *)
(***************************************************************************)
\* The keys of the source descriptor each branch of source_fetch reads.
needs ==
    [t \in {"worldbank", "wgi", "owid", "owid_percap", "nd_gain", "acled",
            "vendor_csv", "vendor_csv_or_gpi", "worldbank_or_imf_weo"} |->
        CASE t \in {"worldbank", "wgi"} -> {"code"}
          [] t = "owid" -> {"slug"}
          [] t = "owid_percap" -> {"slug_value", "slug_population"}
          [] t = "vendor_csv" -> {"filename"}
          [] t = "worldbank_or_imf_weo" -> {"wb_code_fallback"}
          [] OTHER -> {}]

KnownTypes == DOMAIN needs

\* What a call returns: a table, or an exception.
returned(table) == [raised |-> FALSE, table |-> table]
raising == [raised |-> TRUE, table |-> <<>>]

\* A source_fetch whose key lookups and connector call are not inside the try.
source_fetch_unguarded(indicator, conn) ==
    IF "source" \notin DOMAIN indicator \/ "type" \notin DOMAIN indicator.source
    THEN raising
    ELSE LET s == indicator.source
         IN  IF s.type \notin KnownTypes THEN returned(<<>>)
             ELSE IF ~(needs[s.type] \subseteq DOMAIN s) \/ conn.kind = "raises"
             THEN raising
             ELSE returned(conn.rows)

\* source_fetch(ind) when the connector behind the type behaves as conn:
\* ind["source"] and s["type"] are read before the try; a missing key of the
\* branch and an exception of the connector are caught inside it and end in
\* the empty table of the last line, as does a type no branch matches.
source_fetch(indicator, conn) ==
    IF "source" \notin DOMAIN indicator \/ "type" \notin DOMAIN indicator.source
    THEN raising
    ELSE LET s == indicator.source
         IN  IF /\ s.type \in KnownTypes
                /\ needs[s.type] \subseteq DOMAIN s
                /\ conn.kind = "table"
             THEN returned(conn.rows)
             ELSE returned(<<>>)

\* What the connector behind a source type may do: return rows, return
\* nothing, raise.
ConnectorOutcomes ==
    {[kind |-> "table", rows |-> t] : t \in SourceTables} \cup {[kind |-> "raises"]}

NoCall == [kind |-> "none"]

\* One call source_fetch(ind).
SourceFetch ==
    /\ pc = "source_fetch"
    /\ \E conn \in ConnectorOutcomes :
          /\ connector' = conn
          /\ df' = source_fetch(ind, conn).table
          /\ pc' = IF source_fetch(ind, conn).raised THEN "fetch_raised" ELSE "fetched"
    /\ UNCHANGED <<countries, cfg, ii, spec_norm, lookback, used, basis0, values,
                   basis, level, norm_full, raw_values, norm_values, basis_values,
                   indicator_meta, df_wide, years_used, df_long, tasks,
                   backoff_vars, ndgain_vars>>

(***************************************************************************)
(* connectors/acled.py: _request_with_backoff                              *)
(***************************************************************************)
BACKOFF_SEC == <<2, 4, 8, 16>>

\* The statuses the code retries without raising.
RetryStatuses == {429, 500, 502, 503, 504, 520, 522, 524}

\* What one requests.request may give: a status, or a RequestException
\* before any response (written 0).
NoResponse == 0
Responses == {200, 302, 401, 404, 429, 503, 520, NoResponse}

\* resp.raise_for_status() raises HTTPError for 4xx and 5xx.
is_error_status(st) == st >= 400 /\ st < 600

\* enumerate([0] + BACKOFF_SEC)
waits == <<0>> \o BACKOFF_SEC

\* One iteration of "for i, wait in enumerate([0] + BACKOFF_SEC)": the sleep,
\* the request and what follows it; after the last iteration, the final line.
BackoffAttempt ==
    /\ bo_pc = "loop"
    /\ IF attempt >= Len(waits)
       THEN /\ bo_pc' = "unreachable"
            /\ UNCHANGED <<attempt, sleeps, statuses>>
       ELSE /\ sleeps' = IF waits[attempt + 1] # 0
                         THEN Append(sleeps, waits[attempt + 1]) ELSE sleeps
            /\ \E resp \in Responses :
                  /\ statuses' = Append(statuses, resp)
                  /\ IF resp # NoResponse /\ resp \in RetryStatuses
                        /\ attempt < Len(BACKOFF_SEC)
                     THEN bo_pc' = "loop" /\ attempt' = attempt + 1
                     ELSE IF resp = NoResponse \/ is_error_status(resp)
                     THEN IF attempt = Len(BACKOFF_SEC)
                          THEN bo_pc' = "raised" /\ attempt' = attempt
                          ELSE bo_pc' = "loop" /\ attempt' = attempt + 1
                     ELSE bo_pc' = "returned" /\ attempt' = attempt
    /\ UNCHANGED <<pipeline_vars, fetch_vars, ndgain_vars>>

(***************************************************************************)
(* connectors/ndgain.py: fetch_nd_gain                                     *)
(***************************************************************************)
YEAR_LO == 2000
YEAR_HI == 2035

\* df[(df["year"] >= 2000) & (df["year"] <= 2035)]
plausible(table) ==
    SelectSeq(table, LAMBDA r : r.year >= YEAR_LO /\ r.year <= YEAR_HI)

\* What _from_url / _from_vendor_csv may do for one source.
NdTables ==
    { <<>>,
      <<row("AUT", 2010, R(1))>>,
      <<row("AUT", 1999, R(1))>>,
      <<row("AUT", 2036, R(1)), row("USA", 2035, R(2))>> }

NdOutcomes == {[kind |-> "table", rows |-> t] : t \in NdTables} \cup {[kind |-> "raises"]}

Unset == [kind |-> "unset"]

\* The surroundings of one call: ND_GAIN_URL (unset, or what its download
\* gives), what each scraped candidate gives, what the vendor file gives.
NdEnvs ==
    [direct : {Unset} \cup NdOutcomes,
     candidates : {<<>>} \cup {<<a>> : a \in NdOutcomes}
                  \cup {<<a, b>> : a \in NdOutcomes, b \in NdOutcomes},
     vendor : NdOutcomes]

\* 1) the direct URL: a non-empty download is returned after the filter,
\*    whatever the filter leaves.
NdDirect ==
    /\ nd_pc = "direct"
    /\ IF nd_env.direct.kind = "table" /\ nd_env.direct.rows # <<>>
       THEN /\ nd_df' = plausible(nd_env.direct.rows)
            /\ nd_from' = "direct"
            /\ nd_pc' = "returned"
       ELSE /\ nd_pc' = "candidates"
            /\ UNCHANGED <<nd_df, nd_from>>
    /\ UNCHANGED <<nd_env, nd_k, pipeline_vars, fetch_vars, backoff_vars>>

\* 2) one iteration of "for url in candidates", or the end of the loop.
NdCandidate ==
    /\ nd_pc = "candidates"
    /\ IF nd_k > Len(nd_env.candidates)
       THEN /\ nd_pc' = "vendor"
            /\ UNCHANGED <<nd_k, nd_df, nd_from>>
       ELSE LET c == nd_env.candidates[nd_k]
            IN  IF c.kind = "table" /\ c.rows # <<>> /\ plausible(c.rows) # <<>>
                THEN /\ nd_df' = plausible(c.rows)
                     /\ nd_from' = "candidate"
                     /\ nd_pc' = "returned"
                     /\ UNCHANGED nd_k
                ELSE /\ nd_k' = nd_k + 1
                     /\ UNCHANGED <<nd_pc, nd_df, nd_from>>
    /\ UNCHANGED <<nd_env, pipeline_vars, fetch_vars, backoff_vars>>

\* 3) the vendor file (read outside any try), 4) else the empty table.
NdVendor ==
    /\ nd_pc = "vendor"
    /\ IF nd_env.vendor.kind = "raises"
       THEN /\ nd_pc' = "raised"
            /\ UNCHANGED <<nd_df, nd_from>>
       ELSE /\ nd_pc' = "returned"
            /\ IF nd_env.vendor.rows # <<>>
               THEN nd_df' = plausible(nd_env.vendor.rows) /\ nd_from' = "vendor"
               ELSE nd_df' = <<>> /\ nd_from' = "none"
    /\ UNCHANGED <<nd_env, nd_k, pipeline_vars, fetch_vars, backoff_vars>>

\* No adapter call is in progress.
AdaptersIdle ==
    /\ connector = NoCall
    /\ bo_pc = "idle" /\ attempt = 0 /\ sleeps = <<>> /\ statuses = <<>>
    /\ nd_pc = "idle" /\ nd_env = [direct |-> Unset, candidates |-> <<>>, vendor |-> Unset]
    /\ nd_k = 1 /\ nd_df = <<>> /\ nd_from = "none"

(***************************************************************************)
(* Inputs                                                                  *)
(***************************************************************************)
\* Registries in which countries share regions and income levels.
RegGrid ==
    <<[iso3 |-> "AUT", region |-> "R1", incomeLevel |-> "I1"],
      [iso3 |-> "USA", region |-> "R1", incomeLevel |-> "I2"],
      [iso3 |-> "BRA", region |-> "R2", incomeLevel |-> "I1"],
      [iso3 |-> "NGA", region |-> "R2", incomeLevel |-> "I2"]>>

RegShared ==
    <<[iso3 |-> "AUT", region |-> "R1", incomeLevel |-> "I1"],
      [iso3 |-> "USA", region |-> "R2", incomeLevel |-> "I1"],
      [iso3 |-> "BRA", region |-> "R2", incomeLevel |-> "I1"],
      [iso3 |-> "NGA", region |-> "R2", incomeLevel |-> "I2"]>>

\* Raw values: missing, or one of 1..MaxVal.
RawVals == {NaN} \cup {R(k) : k \in 1..MaxVal}

DefaultOrder == <<"region", "income", "global">>

DefaultNormalization == [method |-> "percentile_clamp", higher_is_riskier |-> TRUE]

Config(indicators, order, pillars) ==
    [indicators |-> indicators,
     defaults |-> [lookback_years |-> 1,
                   imputation |-> [order |-> order],
                   normalization |-> DefaultNormalization],
     pillars |-> pillars]

IndA == [id |-> "a", pillar |-> "P1", group |-> "G1",
         normalization |-> [method |-> "linear_minmax", min |-> R(0), max |-> R(5)]]
IndB == [id |-> "b", pillar |-> "P1", group |-> "G1", lookback_years |-> 0]
IndC == [id |-> "c", pillar |-> "P1", group |-> "G2",
         normalization |-> [method |-> "linear_minmax", min |-> R(0), max |-> R(5),
                            higher_is_riskier |-> FALSE]]
IndD == [id |-> "c", pillar |-> "P2", group |-> "G1",
         normalization |-> [method |-> "invert_0_100"],
         transform |-> [scale |-> R(40)]]
IndE == [id |-> "b", pillar |-> "P1", group |-> "G1",
         normalization |-> [method |-> "log_cap"]]
IndF == [id |-> "a", pillar |-> "P1", group |-> "G1",
         normalization |-> [method |-> "wgi", invert_sign |-> TRUE]]
IndG == [id |-> "b", pillar |-> "P1", group |-> "G2",
         normalization |-> [method |-> "linear_minmax"]]

Catalogs ==
    { Config(<<IndA, IndB, IndC>>, DefaultOrder, <<"P1">>),
      Config(<<IndA, IndE, IndD>>, DefaultOrder, <<"P1", "P2">>),
      Config(<<IndF, IndG, IndD>>, DefaultOrder, <<"P1", "P2">>),
      Config(<<IndA, IndB, IndC>>, DefaultOrder, <<"P1", "P2">>),
      Config(<<IndA, IndE, IndD>>, DefaultOrder, <<"P1">>) }

\* The locals of run_pipeline before the first indicator.
PipelineBlank ==
    /\ ii = 1 /\ spec_norm = Nothing /\ lookback = 0 /\ df = <<>>
    /\ used = {} /\ basis0 = Nothing /\ values = Nothing /\ basis = Nothing
    /\ level = 0 /\ norm_full = Nothing /\ raw_values = Nothing
    /\ norm_values = Nothing /\ basis_values = Nothing /\ df_wide = Nothing
    /\ indicator_meta = Nothing /\ years_used = Nothing /\ df_long = {}
    /\ tasks = Nothing

Blank == PipelineBlank /\ AdaptersIdle

(***************************************************************************)
(* Spec: run_pipeline over a catalog of three indicators.                  *)
(***************************************************************************)
Init ==
    /\ pc = "fetch"
    /\ countries = RegGrid
    /\ cfg \in Catalogs
    /\ Blank

Next ==
    \/ Fetch
    \/ Select
    \/ Filter
    \/ ImputeStart
    \/ ImputeLevel
    \/ ImputeReturn
    \/ Normalize
    \/ Store
    \/ Aggregate
    \/ Output

Spec == Init /\ [][Next]_vars

(***************************************************************************)
(* SpecNormalize: normalize on every column over the fallback registry.    *)
(***************************************************************************)
NormInputs == {NaN} \cup {R(k) : k \in 0..MaxVal}

Flags ==
    {[invert_sign |-> a, invert |-> b, higher_is_riskier |-> c] :
        a \in BOOLEAN, b \in BOOLEAN, c \in BOOLEAN}

MethodSpecs ==
    { [method |-> "invert_0_100"],
      [method |-> "wgi"],
      [method |-> "linear_minmax"],
      [method |-> "linear_minmax", min |-> R(0), max |-> R(MaxVal)],
      [method |-> "linear_minmax", min |-> R(1), max |-> R(1)],
      [method |-> "log_cap"],
      [method |-> "log_cap", cap |-> R(0)],
      [method |-> "log_cap", cap |-> R(MaxVal)],
      [method |-> "percentile_clamp"],
      [method |-> "percentile_clamp", p_low |-> 25, p_high |-> 75] }

NormSpecs == {merge(f, m) : f \in Flags, m \in MethodSpecs}

InitNormalize ==
    /\ pc = "normalize"
    /\ countries = FallbackRegistry
    /\ cfg = Config(<<IndA>>, DefaultOrder, <<"P1">>)
    /\ ii = 1 /\ lookback = 0 /\ df = <<>>
    /\ used = {} /\ basis0 = Nothing /\ basis = Nothing
    /\ level = 0 /\ norm_full = Nothing /\ raw_values = Nothing
    /\ norm_values = Nothing /\ basis_values = Nothing /\ df_wide = Nothing
    /\ indicator_meta = Nothing /\ years_used = Nothing /\ df_long = {}
    /\ tasks = Nothing
    /\ AdaptersIdle
    /\ spec_norm \in NormSpecs
    /\ values \in [iso_list(FallbackRegistry) -> NormInputs]

NextNormalize == Normalize

SpecNormalize == InitNormalize /\ [][NextNormalize]_vars

(***************************************************************************)
(* Claims about normalize (SpecNormalize)                                  *)
(***************************************************************************)
method_of(spec) == get(spec, "method", "percentile_clamp")

\* normalize has returned in this state.
Normalized == pc = "store"

InRange(x) == RLe(R(0), x) /\ RLe(x, R(100))

\* C1: every output of normalize is missing or a number in [0,100], for every
\* method, flag combination and input column.
C1_NormalizedInRange ==
    Normalized => \A c \in DOMAIN norm_full : isna(norm_full[c]) \/ InRange(norm_full[c])

\* A division by a zero range produced an infinity that the clip brought back
\* to 100.
C1_Witness ==
    /\ Normalized
    /\ method_of(spec_norm) = "linear_minmax"
    /\ linear_min(prescale(values, spec_norm), spec_norm)
         = linear_max(prescale(values, spec_norm), spec_norm)
    /\ \E c \in DOMAIN norm_full : notna(values[c]) /\ norm_full[c] = R(100)

\* C2: a country whose input is missing has a missing normalized output.
C2_MissingStaysMissing ==
    Normalized => \A c \in DOMAIN norm_full : isna(values[c]) => isna(norm_full[c])

\* The scaling range of the chosen method is zero, or there are too few
\* points to form one.
DegenerateSpread ==
    LET v == prescale(values, spec_norm)
        m == method_of(spec_norm)
    IN  \/ count(v) <= 1
        \/ m = "linear_minmax" /\ linear_min(v, spec_norm) = linear_max(v, spec_norm)
        \/ m = "log_cap" /\ log_cap_of(v, spec_norm) = R(0)
        \/ m = "percentile_clamp" /\ clamp_lo(v, spec_norm) = clamp_hi(v, spec_norm)

\* C3: under a degenerate spread every non-missing input is mapped to 50.
C3_DegenerateGives50 ==
    (Normalized /\ method_of(spec_norm) \in {"linear_minmax", "log_cap", "percentile_clamp"}
        /\ DegenerateSpread)
    => \A c \in DOMAIN norm_full : notna(values[c]) => norm_full[c] = R(50)

(***************************************************************************)
(* SpecSelect: the temporal selector on every raw series of at most        *)
(* MaxRows rows over two countries and three years.                        *)
(***************************************************************************)
Years == {2019, 2020, 2021}

SelIsos == {"AUT", "USA"}

SelVals == {NaN, R(1), R(2)}

SelRows == {row(i, y, v) : i \in SelIsos, y \in Years, v \in SelVals}

RawSeries == UNION {[1..n -> SelRows] : n \in 0..MaxRows}

InitSelect ==
    /\ pc = "select"
    /\ countries = FallbackRegistry
    /\ cfg = Config(<<IndA>>, DefaultOrder, <<"P1">>)
    /\ ii = 1 /\ spec_norm = Nothing
    /\ used = {} /\ basis0 = Nothing /\ values = Nothing /\ basis = Nothing
    /\ level = 0 /\ norm_full = Nothing /\ raw_values = Nothing
    /\ norm_values = Nothing /\ basis_values = Nothing /\ df_wide = Nothing
    /\ indicator_meta = Nothing /\ years_used = Nothing /\ df_long = {}
    /\ tasks = Nothing
    /\ AdaptersIdle
    /\ lookback \in 0..MaxLookback
    /\ df \in RawSeries

NextSelect ==
    \/ Select
    \/ Filter

SpecSelect == InitSelect /\ [][NextSelect]_vars

(***************************************************************************)
(* Claims about the temporal selector (SpecSelect)                         *)
(***************************************************************************)
\* pick_latest_with_lookback_and_basis has returned in this state.
Selected == pc = "filter"

isos_of(d) == {d[i].iso3 : i \in DOMAIN d}

\* iso has a row of year yy that carries a value.
valued_at(d, iso, yy) == \E i \in rows_of(d, iso, yy) : notna(d[i].value)

\* The k in 0..lb for which iso has data k years behind its most recent year.
valued_offsets(d, iso, lb) ==
    {k \in 0..lb : valued_at(d, iso, latest_year(d, iso) - k)}

is_selected(iso) == \E r \in used : r.iso3 = iso

\* C4: basis exclusivity.  A country with data in its most recent year is
\* selected as "raw"; one whose data lies only k years back, 1 <= k <= L, is
\* selected as "lookback"; one with no row inside the window is not selected;
\* no country has two selected rows.
C4_BasisExclusivity ==
    Selected =>
        \A iso \in isos_of(df) :
            LET ks == valued_offsets(df, iso, lookback)
            IN  /\ 0 \in ks => is_selected(iso) /\ basis0[iso] = "raw"
                /\ (ks # {} /\ 0 \notin ks) => is_selected(iso) /\ basis0[iso] = "lookback"
                /\ probe(df, iso, lookback) < 0 =>
                       ~is_selected(iso) /\ iso \notin DOMAIN basis0
                /\ Cardinality({r \in used : r.iso3 = iso}) <= 1

\* C5: when the value of the latest year is missing the selector looks back
\* and selects the most recent year of the window that has a value, tagged
\* "lookback"; a row with a missing value is never selected while a valued
\* row exists inside the window.
C5_LooksBackPastMissing ==
    Selected =>
        \A iso \in isos_of(df) :
            LET ks == valued_offsets(df, iso, lookback)
                k0 == CHOOSE k \in ks : \A m \in ks : k <= m
            IN  ks # {} =>
                    \E r \in used :
                        /\ r.iso3 = iso
                        /\ notna(r.value)
                        /\ r.year = latest_year(df, iso) - k0
                        /\ basis0[iso] = basis_of_probe(k0)

Registries == {RegGrid, RegShared}

Orders ==
    { <<"region", "income", "global">>, <<"region", "global", "income">>,
      <<"income", "region", "global">>, <<"income", "global", "region">>,
      <<"global", "region", "income">>, <<"global", "income", "region">>,
      <<"region", "income">>, <<"global">> }

SourceIsos == <<"AUT", "USA", "BRA", "NGA", "XKX">>

NoRow == <<>>

\* What a source has for a country: no row, or a row with a raw value; for
\* the country outside the registry no row or a row of value 1.
RowChoices ==
    {f \in [Range(SourceIsos) -> {NoRow} \cup RawVals] : f["XKX"] \in {NoRow, R(1)}}

RECURSIVE table_of(_, _)
\* The table with the rows f has, in the order of isos.
table_of(isos, f) ==
    IF isos = <<>> THEN <<>>
    ELSE IF f[Head(isos)] = NoRow THEN table_of(Tail(isos), f)
    ELSE <<row(Head(isos), 2020, f[Head(isos)])>> \o table_of(Tail(isos), f)

InitImpute ==
    /\ pc = "select"
    /\ countries \in Registries
    /\ \E o \in Orders : cfg = Config(<<IndA>>, o, <<"P1">>)
    /\ ii = 1 /\ spec_norm = Nothing /\ lookback = 1
    /\ used = {} /\ basis0 = Nothing /\ values = Nothing /\ basis = Nothing
    /\ level = 0 /\ norm_full = Nothing /\ raw_values = Nothing
    /\ norm_values = Nothing /\ basis_values = Nothing /\ df_wide = Nothing
    /\ indicator_meta = Nothing /\ years_used = Nothing /\ df_long = {}
    /\ tasks = Nothing
    /\ AdaptersIdle
    /\ \E f \in RowChoices : df = table_of(SourceIsos, f)

NextImpute ==
    \/ Select
    \/ Filter
    \/ ImputeStart
    \/ ImputeLevel
    \/ ImputeReturn

SpecImpute == InitImpute /\ [][NextImpute]_vars

(***************************************************************************)
(* Claims about impute_with_basis (SpecImpute)                             *)
(***************************************************************************)
\* impute_with_basis is running or has returned.
Imputing == pc \in {"levels", "normalize"}
Imputed == pc = "normalize"

\* The anchor set: the selected raw/lookback rows of registry countries.
anchors == used

region_of(c) == meta(countries, c).region
income_of(c) == meta(countries, c).incomeLevel

\* The medians of the anchor values of c's region, of c's income level and
\* of the whole anchor set.
anchor_region_median(c) ==
    median([r \in {a \in anchors : region_of(a.iso3) = region_of(c)} |-> r.value])

anchor_income_median(c) ==
    median([r \in {a \in anchors : income_of(a.iso3) = income_of(c)} |-> r.value])

anchor_global_median == median([r \in anchors |-> r.value])

\* C6: the value filled at every fallback level is the median of the anchor
\* set alone, whatever earlier levels have filled.
C6_MediansFromAnchors ==
    Imputing =>
        \A c \in DOMAIN basis :
            /\ basis[c] = "region" => values[c] = anchor_region_median(c)
            /\ basis[c] = "income" => values[c] = anchor_income_median(c)
            /\ basis[c] = "global" => values[c] = anchor_global_median

\* A country filled by region shares the income level of one filled later by
\* income, with a different value: the earlier fill did not enter the median.
C6_Witness ==
    /\ Imputed
    /\ \E c1, c2 \in DOMAIN basis :
          /\ basis[c1] = "region" /\ basis[c2] = "income"
          /\ income_of(c1) = income_of(c2)
          /\ values[c1] # values[c2]
          /\ impute_order[1] = "region"

\* C7: with the default order a country ends as "income" only if its region
\* has no anchor median, and as "global" only if neither its region nor its
\* income level has one.
C7_FallbackMonotone ==
    (Imputed /\ impute_order = DefaultOrder) =>
        \A c \in DOMAIN basis :
            /\ basis[c] = "income" => isna(anchor_region_median(c))
            /\ basis[c] = "global" =>
                  isna(anchor_region_median(c)) /\ isna(anchor_income_median(c))

\* One run of the default order fills one country at each of the three levels.
C7_Witness ==
    /\ Imputed /\ impute_order = DefaultOrder
    /\ \E c1, c2, c3 \in DOMAIN basis :
          basis[c1] = "region" /\ basis[c2] = "income" /\ basis[c3] = "global"

\* C8: once a country carries a basis tag, no later step replaces it.
C8_BasisWrittenOnce ==
    [][\A c \in DOMAIN basis :
          basis[c] # NoBasis => (c \in DOMAIN basis' /\ basis'[c] = basis[c])]_vars

(***************************************************************************)
(* SpecCoverage: one indicator from the selection to its coverage summary, *)
(* on the inputs of SpecImpute.                                            *)
(***************************************************************************)
NextCoverage ==
    \/ Select
    \/ Filter
    \/ ImputeStart
    \/ ImputeLevel
    \/ ImputeReturn
    \/ Normalize
    \/ Store

SpecCoverage == InitImpute /\ [][NextCoverage]_vars

\* The indicator has been stored with its coverage summary.
Stored == pc = "aggregate"

RECURSIVE count_sum(_, _)
\* The sum of the counts bc[b] over the tags b of D.
count_sum(bc, D) ==
    IF D = {} THEN 0
    ELSE LET b == CHOOSE x \in D : TRUE
         IN  bc[b] + count_sum(bc, D \ {b})

\* C20: after impute_with_basis the value of a registry country is
\* non-missing exactly when its basis tag is set; in the coverage summary the
\* countries with a missing value are those counted under "missing", and the
\* counts of the other tags sum to the number of countries counted in
\* coverage_share.
C20_ValueIffBasis ==
    /\ pc \in {"normalize", "store", "aggregate"} =>
          \A c \in iso_list(countries) : notna(values[c]) <=> basis[c] # NoBasis
    /\ Stored =>
          LET bc == indicator_meta["a"].basis_counts
              n == Cardinality(iso_list(countries))
          IN  /\ get(bc, NoBasis, 0) = Cardinality({c \in iso_list(countries) : isna(values[c])})
              /\ RMul(indicator_meta["a"].coverage_share, R(n))
                    = R(count_sum(bc, DOMAIN bc \ {NoBasis}))

(***************************************************************************)
(* Claims about the aggregation and empty sources (Spec)                   *)
(***************************************************************************)
Aggregated == pc = "done"

\* The members of a set that are present for a country, and their sum.
present_members(ids, iso) == {i \in ids : notna(norm_values[i][iso])}

\* score is the mean of the present members of ids for iso: missing when no
\* member is present, else score * (number present) = their sum.
IsSkipMissingMean(score, ids, iso) ==
    IF present_members(ids, iso) = {} THEN isna(score)
    ELSE /\ notna(score)
         /\ RMul(score, R(Cardinality(present_members(ids, iso))))
              = rsum([i \in ids |-> norm_values[i][iso]], present_members(ids, iso))

\* C9: every group and pillar score is the skip-missing mean of the member
\* indicators' normalized values; no present member gives a missing score.
C9_SkipMissingMean ==
    Aggregated =>
        \A iso \in iso_list(countries) :
            /\ \A g \in DOMAIN df_wide.group :
                  IsSkipMissingMean(df_wide.group[g][iso], group_map(cfg)[g], iso)
            /\ \A p \in DOMAIN df_wide.pillar :
                  IsSkipMissingMean(df_wide.pillar[p][iso], pillar_map(cfg)[p], iso)

\* Three indicators of one pillar with 20, missing, 80: the pillar is 50.
C9_Witness ==
    /\ Aggregated
    /\ \E iso \in iso_list(countries) :
          /\ norm_values["a"][iso] = R(20)
          /\ isna(norm_values["b"][iso])
          /\ norm_values["c"][iso] = R(80)
          /\ pillar_map(cfg)["P1"] = {"a", "b", "c"}
          /\ df_wide.pillar["P1"][iso] = R(50)

\* The indicators stored so far whose source returned no row.
empty_indicators == {i \in DOMAIN indicator_meta : indicator_meta[i].source_empty}

\* C10: an indicator with zero raw observations is stored with a missing
\* value, no basis tag and a missing normalized value for every country, and
\* every group and pillar score equals the skip-missing mean of the other
\* members, as if the empty indicator were absent.
C10_EmptyIndicatorIsNeutral ==
    /\ \A i \in empty_indicators : \A iso \in iso_list(countries) :
          /\ isna(raw_values[i][iso])
          /\ basis_values[i][iso] = NoBasis
          /\ isna(norm_values[i][iso])
    /\ Aggregated =>
          \A iso \in iso_list(countries) :
              /\ \A g \in DOMAIN df_wide.group :
                    IsSkipMissingMean(df_wide.group[g][iso],
                                      group_map(cfg)[g] \ empty_indicators, iso)
              /\ \A p \in DOMAIN df_wide.pillar :
                    IsSkipMissingMean(df_wide.pillar[p][iso],
                                      pillar_map(cfg)[p] \ empty_indicators, iso)

\* A pillar holds an empty indicator and still has a score from the others.
C10_Witness ==
    /\ Aggregated
    /\ \E i \in empty_indicators : \E p \in DOMAIN df_wide.pillar :
          /\ i \in pillar_map(cfg)[p]
          /\ pillar_map(cfg)[p] \ empty_indicators # {}
          /\ \E iso \in iso_list(countries) : notna(df_wide.pillar[p][iso])

(***************************************************************************)
(* Claims about pillar and total scores (Spec)                             *)
(***************************************************************************)
GroupNames == {"G1", "G2"}

\* The catalog c with its indicators refiled under the groups f names.
regroup(c, f) ==
    [c EXCEPT !.indicators =
        [k \in DOMAIN c.indicators |->
            [c.indicators[k] EXCEPT !.group = f[c.indicators[k].id]]]]

\* The mean, for iso, of the group scores of pillar p.
mean_of_group_scores(p, iso) ==
    mean_skipna([g \in {h \in DOMAIN df_wide.group : h[1] = p} |->
                    df_wide.group[g][iso]])

\* C11: the pillar score of every country is the skip-missing mean over the
\* normalized values of the pillar's indicators, and it is the same for every
\* assignment of the indicators to groups.
C11_PillarFromIndicators ==
    Aggregated =>
        /\ \A p \in DOMAIN df_wide.pillar : \A iso \in iso_list(countries) :
              IsSkipMissingMean(df_wide.pillar[p][iso], pillar_map(cfg)[p], iso)
        /\ \A f \in [ind_ids(cfg) -> GroupNames] :
              pillar_scores(regroup(cfg, f), norm_values, iso_list(countries))
                  = df_wide.pillar

\* A pillar with two groups of unequal size whose score differs from the mean
\* of its group scores.
C11_Witness ==
    /\ Aggregated
    /\ \E p \in DOMAIN df_wide.pillar : \E iso \in iso_list(countries) :
          /\ Cardinality({h \in DOMAIN df_wide.group : h[1] = p}) = 2
          /\ notna(df_wide.pillar[p][iso])
          /\ notna(mean_of_group_scores(p, iso))
          /\ df_wide.pillar[p][iso] # mean_of_group_scores(p, iso)

\* run_pipeline has left the aggregation: with a total, or with an exception.
AggregationLeft == pc \in {"done", "written", "raised"}

\* The declared pillars whose score is present for iso.
present_pillars(iso) ==
    {p \in Range(cfg.pillars) :
        p \in DOMAIN df_wide.pillar /\ notna(df_wide.pillar[p][iso])}

\* C12: for every catalog the total of a country is the skip-missing mean
\* over the declared pillars' scores: a declared pillar with a missing score
\* or without indicators is skipped, and the total is missing exactly when
\* every declared pillar score is.
C12_TotalOverDeclaredPillars ==
    AggregationLeft =>
        /\ pc # "raised"
        /\ \A iso \in iso_list(countries) :
              IF present_pillars(iso) = {} THEN isna(df_wide.total[iso])
              ELSE /\ notna(df_wide.total[iso])
                   /\ RMul(df_wide.total[iso], R(Cardinality(present_pillars(iso))))
                        = rsum([p \in present_pillars(iso) |-> df_wide.pillar[p][iso]],
                               present_pillars(iso))

\* C13: run_pipeline reaches the output stage for every catalog and every
\* combination of source outcomes: no exception escapes from the
\* per-indicator, aggregation or output stage.
C13_NoExceptionEscapes == pc # "raised"

(***************************************************************************)
(* Claims about the registry (Spec)                                        *)
(***************************************************************************)
\* The rows of a table whose country is in the registry.
registry_rows(d, reg) == SelectSeq(d, LAMBDA r : r.iso3 \in iso_list(reg))

\* The indicator records of a country in the long output.
indicator_records(iso, id) ==
    {rec \in df_long : rec.kind = "indicator" /\ rec.iso3 = iso /\ rec.id = <<id>>}

\* C15: only registry countries count downstream.  The anchor set holds rows
\* of registry countries only; the values, basis tags and normalized values
\* of an indicator are those its source would give without the rows of other
\* countries, and are carried by the registry countries only; the output has
\* records of registry countries only, and for every registry country and
\* indicator exactly one, with the (possibly missing) stored value.
C15_OnlyRegistryCountries ==
    /\ pc \in {"impute", "levels", "normalize", "store"} =>
          \A r \in used : r.iso3 \in iso_list(countries)
    /\ pc \in {"levels", "normalize", "store"} =>
          DOMAIN values = iso_list(countries) /\ DOMAIN basis = iso_list(countries)
    /\ pc = "store" =>
          LET col == columns_of(registry_rows(df, countries), lookback, spec_norm,
                                impute_order, countries)
          IN  values = col.raw /\ basis = col.basis /\ norm_full = col.norm
    /\ pc = "written" =>
          /\ \A rec \in df_long : rec.iso3 \in iso_list(countries)
          /\ \A iso \in iso_list(countries) : \A id \in ind_ids(cfg) :
                /\ Cardinality(indicator_records(iso, id)) = 1
                /\ \A rec \in indicator_records(iso, id) :
                      /\ rec.raw = raw_values[id][iso]
                      /\ rec.basis = basis_values[id][iso]

\* A source with a row of a country outside the registry and a row of a
\* registry country: the others are filled with the registry row's value.
C15_Witness ==
    /\ pc = "store"
    /\ \E k \in DOMAIN df : df[k].iso3 \notin iso_list(countries)
    /\ \E k \in DOMAIN df : df[k].iso3 \in iso_list(countries)
    /\ \E c \in iso_list(countries) : basis[c] = "global" /\ notna(values[c])

(***************************************************************************)
(* SpecFetch: source_fetch on every source type and descriptor, with every *)
(* outcome of the connector.                                               *)
(***************************************************************************)
SourceTypes == KnownTypes \cup {"imf_weo"}

ParamKeys == {"code", "slug", "slug_value", "slug_population", "filename",
              "wb_code_fallback"}

\* The source descriptors: a type and any subset of the parameter keys.
Descriptors ==
    {[k \in {"type"} \cup K |-> IF k = "type" THEN t ELSE "x"] :
        t \in SourceTypes, K \in SUBSET ParamKeys}

\* An indicator definition with the source descriptor d.
IndSource(d) == [id |-> "a", pillar |-> "P1", group |-> "G1", source |-> d]

InitFetch ==
    /\ pc = "source_fetch"
    /\ countries = FallbackRegistry
    /\ \E d \in Descriptors : cfg = Config(<<IndSource(d)>>, DefaultOrder, <<"P1">>)
    /\ PipelineBlank
    /\ AdaptersIdle

NextFetch == SourceFetch

SpecFetch == InitFetch /\ [][NextFetch]_vars

\* source_fetch has ended: with a table, or with an exception.
FetchEnded == pc \in {"fetched", "fetch_raised"}

\* The call could not produce rows: unknown type, a key of the type missing
\* from the descriptor, or a connector that returned nothing or raised.
fetch_failed ==
    \/ ind.source.type \notin KnownTypes
    \/ ~(needs[ind.source.type] \subseteq DOMAIN ind.source)
    \/ connector.kind = "raises"
    \/ connector.rows = <<>>

Columns == {"iso3", "year", "value"}

\* C14: source_fetch never raises; for every source type and descriptor and
\* every outcome of the connector it returns a table with the columns iso3,
\* year, value, which is empty on any failure (and the connector's rows
\* otherwise).
C14_SourceFetchNeverRaises ==
    FetchEnded =>
        /\ pc = "fetched"
        /\ \A k \in DOMAIN df : DOMAIN df[k] = Columns
        /\ IF fetch_failed THEN df = <<>> ELSE df = connector.rows

\* The three kinds of failure, each ending in the empty table.
C14_Witness ==
    /\ pc = "fetched" /\ df = <<>>
    /\ \/ connector.kind = "raises" /\ ind.source.type = "vendor_csv"
          /\ "filename" \in DOMAIN ind.source
       \/ connector.kind = "table" /\ connector.rows # <<>>
          /\ ind.source.type = "owid_percap"
          /\ "slug_population" \notin DOMAIN ind.source
       \/ connector.kind = "table" /\ connector.rows # <<>>
          /\ ind.source.type = "imf_weo"

(***************************************************************************)
(* SpecBackoff: one call of _request_with_backoff against a server that    *)
(* answers every request with any of the responses.                        *)
(***************************************************************************)
InitBackoff ==
    /\ pc = "idle" /\ countries = FallbackRegistry
    /\ cfg = Config(<<IndA>>, DefaultOrder, <<"P1">>)
    /\ PipelineBlank
    /\ connector = NoCall
    /\ bo_pc = "loop" /\ attempt = 0 /\ sleeps = <<>> /\ statuses = <<>>
    /\ nd_pc = "idle" /\ nd_env = [direct |-> Unset, candidates |-> <<>>, vendor |-> Unset]
    /\ nd_k = 1 /\ nd_df = <<>> /\ nd_from = "none"

NextBackoff == BackoffAttempt

SpecBackoff == InitBackoff /\ [][NextBackoff]_vars

\* An HTTP error status outside the retry list.
other_error(st) == st # NoResponse /\ is_error_status(st) /\ st \notin RetryStatuses

\* C17: a response with an error status outside 429/5xx/Cloudflare makes the
\* call raise after that attempt, with no sleep and no further request; a
\* call makes at most 5 requests, ends by returning a non-error response or
\* by raising, and never reaches the final "unreachable" line.
C17_BackoffOnlyForRetryStatuses ==
    /\ \A k \in DOMAIN statuses :
          other_error(statuses[k]) => (k = Len(statuses) /\ bo_pc = "raised")
    /\ Len(statuses) <= Len(BACKOFF_SEC) + 1
    /\ bo_pc # "unreachable"
    /\ bo_pc = "returned" => ~is_error_status(statuses[Len(statuses)])
                             /\ statuses[Len(statuses)] # NoResponse

(***************************************************************************)
(* SpecNdGain: one call of fetch_nd_gain in every surrounding.             *)
(***************************************************************************)
InitNdGain ==
    /\ pc = "idle" /\ countries = FallbackRegistry
    /\ cfg = Config(<<IndA>>, DefaultOrder, <<"P1">>)
    /\ PipelineBlank
    /\ connector = NoCall
    /\ bo_pc = "idle" /\ attempt = 0 /\ sleeps = <<>> /\ statuses = <<>>
    /\ nd_pc = "direct" /\ nd_env \in NdEnvs
    /\ nd_k = 1 /\ nd_df = <<>> /\ nd_from = "none"

NextNdGain ==
    \/ NdDirect
    \/ NdCandidate
    \/ NdVendor

SpecNdGain == InitNdGain /\ [][NextNdGain]_vars

\* The sources of the call in priority order: ND_GAIN_URL when set, the
\* candidates, the vendor file.
nd_sources ==
    (IF nd_env.direct = Unset THEN <<>> ELSE <<nd_env.direct>>)
        \o nd_env.candidates \o <<nd_env.vendor>>

\* The rows of a source with a year in 2000..2035.
good_rows(src) == IF src.kind = "table" THEN plausible(src.rows) ELSE <<>>

\* The positions of the sources that have such rows.
good_sources == {k \in DOMAIN nd_sources : good_rows(nd_sources[k]) # <<>>}

\* C18: fetch_nd_gain returns the rows of the first source, in priority
\* order, that has rows with a year in 2000..2035, and an empty table only
\* when no source has such rows.
C18_FirstSourceWithPlausibleRows ==
    nd_pc = "returned" =>
        IF good_sources = {} THEN nd_df = <<>>
        ELSE nd_df = good_rows(nd_sources[CHOOSE k \in good_sources :
                                            \A m \in good_sources : k <= m])

(***************************************************************************)
(* SpecInterleave: the indicators of a catalog processed as tasks in every *)
(* order and interleaving, then aggregated.                                *)
(***************************************************************************)
InterleaveCatalogs ==
    { Config(<<IndA, IndB, IndC>>, DefaultOrder, <<"P1">>),
      Config(<<IndA, IndE, IndD>>, DefaultOrder, <<"P1", "P2">>) }

InitInterleave ==
    /\ pc = "tasks"
    /\ countries = RegGrid
    /\ cfg \in InterleaveCatalogs
    /\ ii = 1 /\ spec_norm = Nothing /\ lookback = 0 /\ df = <<>>
    /\ used = {} /\ basis0 = Nothing /\ values = Nothing /\ basis = Nothing
    /\ level = 0 /\ norm_full = Nothing /\ raw_values = Nothing
    /\ norm_values = Nothing /\ basis_values = Nothing /\ df_wide = Nothing
    /\ indicator_meta = Nothing /\ years_used = Nothing /\ df_long = {}
    /\ tasks = [k \in DOMAIN cfg.indicators |-> NewTask]
    /\ AdaptersIdle

NextInterleave ==
    \/ TaskStep
    \/ TaskStore
    \/ Aggregate
    \/ Output

SpecInterleave == InitInterleave /\ [][NextInterleave]_vars

\* The tables source_fetch returned to the tasks.
fetched_tables == [k \in DOMAIN tasks |-> tasks[k].fetched]

\* The columns stored are those of seq, each under its indicator id.
stored_as(seq) ==
    /\ DOMAIN raw_values = DOMAIN seq /\ DOMAIN norm_values = DOMAIN seq
    /\ DOMAIN basis_values = DOMAIN seq /\ DOMAIN years_used = DOMAIN seq
    /\ \A id \in DOMAIN seq :
          /\ raw_values[id] = seq[id].raw
          /\ norm_values[id] = seq[id].norm
          /\ basis_values[id] = seq[id].basis
          /\ years_used[id] = seq[id].year

\* C16: in every order and interleaving of the per-indicator steps the
\* stored value, basis, year and normalized columns of each indicator are
\* those of the run in catalog order, and so are the group, pillar and total
\* scores computed after all indicators have finished.
C16_OrderIndependent ==
    pc \in {"aggregate", "done", "written"} =>
        LET seq == sequential_run(cfg, countries, fetched_tables)
        IN  /\ stored_as(seq)
            /\ pc \in {"done", "written"} =>
                  df_wide = aggregate_of(cfg, [id \in DOMAIN seq |-> seq[id].norm],
                                         iso_list(countries))

\* The indicators finished in the reverse of the catalog order, on sources
\* that gave them different columns, and the run was aggregated.
C16_Witness ==
    /\ pc = "done"
    /\ tasks[1].rank = 3 /\ tasks[2].rank = 2 /\ tasks[3].rank = 1
    /\ raw_values["a"] # raw_values["b"]
    /\ raw_values["b"] # raw_values["c"]
    /\ \E iso \in iso_list(countries) : notna(df_wide.total[iso])

====
